---------------------------- MODULE Spec2Model ----------------------------
(* Model of sqlx-cli/src/database.rs: the database lifecycle operations    *)
(* create, drop, reset and setup, the confirmation prompt of drop with its *)
(* RestoreCursorGuard, and the collaborators they call (the Any driver,    *)
(* the migration engine, the dialoguer prompt running on a blocking        *)
(* worker, the terminal cursor).                                           *)
(*                                                                         *)
(* Every await of the source is one step of the model: an invocation is a  *)
(* sequence of steps, each of which performs one collaborator call and the *)
(* synchronous code that follows it up to the next await.                  *)
(*                                                                         *)
(* connect_opts.required_db_url() is taken to succeed (the target is a     *)
(* resolved URL), and the cfg(feature = "_sqlite") store of CREATE_DB_WAL  *)
(* (lines 16-20), which no call of this file reads, is left out.           *)
EXTENDS Integers, Sequences, FiniteSets, TLC

VARIABLES
    dbExists,       \* the target database currently exists (driver side)
    cursorVisible,  \* the terminal cursor is visible
    active,         \* the callers that issue invocations
    ncalls,         \* ncalls[p]: invocations started by caller p
    pc,             \* pc[p]: position of p's invocation
    op,             \* op[p]: the public operation being run
    confirm,        \* confirm[p]: the confirm argument of drop / reset
    force,          \* force[p]: the force argument of drop / reset
    phase,          \* phase[p]: the function of lines 10-46 being executed
    exists,         \* exists[p]: the local `exists` of create / drop
    attempts,       \* attempts[p]: attempts of the running existence check
    fresh,          \* fresh[p]: no other caller has changed the database
                    \*   since p's latest existence check (or p's invocation
                    \*   began)
    guard,          \* guard[p]: state of the RestoreCursorGuard
    wpc,            \* wpc[p]: position of the spawn_blocking prompt worker
    wres,           \* wres[p]: outcome of the prompt worker
    result,         \* result[p]: what the invocation returned
    trace,          \* trace[p]: driver / migrator calls of this invocation,
                    \*   each with its outcome, in the order they were made
    prompts,        \* prompts[p]: prompts shown by this invocation
    cursorLog,      \* cursorLog[p]: cursor operations of this invocation
                    \*   and its panic, in the order they happened
    migrateOpts,    \* migrateOpts[p]: options of each migrate::run call
    dbAtStart,      \* dbAtStart[p]: dbExists when the invocation started
    prev            \* prev[p]: summary of p's previous invocation

shared == <<dbExists, cursorVisible, active>>
args   == <<op, confirm, force>>
ctl    == <<pc, phase, result>>
chk    == <<exists, attempts, fresh>>
prm    == <<guard, wpc, wres, prompts, cursorLog>>
obs    == <<trace, migrateOpts>>
sess   == <<ncalls, dbAtStart, prev>>
vars   == <<shared, args, ctl, chk, prm, obs, sess>>

-----------------------------------------------------------------------------
(* Bounds *)

NProcs   == 2      \* callers the model has room for
MaxCalls == 2      \* invocations per caller

Procs == 1 .. NProcs

(* The attempt ceiling of crate::retry_connect_errors. *)
MaxAttempts == 3

-----------------------------------------------------------------------------
(* Vocabulary *)

Ops       == {"create", "drop", "reset", "setup"}
Answers   == {"yes", "no", "interrupted", "ioerror", "panicked"}
CheckOutcomes == {"ok", "transient", "fatal"}
Errors    == {"ConnectionError", "DriverError", "MigrationError"}
Results   == {"none", "ok", "panic", "cancelled"} \cup Errors

NoCall == [op |-> "none", confirm |-> FALSE, force |-> FALSE,
           result |-> "none", trace |-> <<>>, prompts |-> 0,
           dbAtStart |-> FALSE, dbAtEnd |-> FALSE]

Ctl(c, ph, r) == [pc |-> c, phase |-> ph, result |-> r]

(* One observed collaborator call. The outcome of "exists" is "present",   *)
(* "absent", "transient" or "fatal"; of every other call "ok" or "error".  *)
Ev(c, o) == [call |-> c, outcome |-> o]

Done(ok) == IF ok THEN "ok" ELSE "error"

-----------------------------------------------------------------------------
(* Pure pieces of the control flow *)

(* Mutant: the migrations are run as a fake run. *)
MigrateDefaults_Fake ==
    [dry_run |-> FALSE, ignore_missing |-> FALSE, fake |-> TRUE,
     target_version |-> "None"]

(* migrate::run(migration_source, connect_opts, false, false, false, None) *)
MigrateDefaults ==
    [dry_run |-> FALSE, ignore_missing |-> FALSE, fake |-> FALSE,
     target_version |-> "None"]

(* Mutant: create takes the branch of the opposite existence result. *)
CreateNeeded_Inverted(ex) == ex

(* Mutant: create does not look at the existence result. *)
CreateNeeded_Always(ex) == TRUE

(* `if !exists` of create *)
CreateNeeded(ex) == ~ex

(* Mutant: drop takes the branch of the opposite existence result. *)
DropNeeded_Inverted(ex) == ~ex

(* Mutant: drop does not look at the existence result. *)
DropNeeded_Always(ex) == TRUE

(* `if exists` of drop *)
DropNeeded(ex) == ex

(* Mutant: drop ignores force. *)
DropCapability_Plain(f) == "drop"

(* `if force { force_drop_database } else { drop_database }` *)
DropCapability(f) == IF f THEN "force_drop" ELSE "drop"

(* Mutant: force bypasses the prompt. *)
PromptNeeded_UnlessForce(c, f) == c /\ ~f

(* `if confirm && !ask_to_continue_drop(..)`: drop prompts iff confirm *)
PromptNeeded(c, f) == c

(* Mutant: any answer counts as a confirmation. *)
Decision_AnyAnswer(w) == w \in {"yes", "no"}

(* The value of ask_to_continue_drop for a prompt outcome that returns:    *)
(* Ok(decision) => decision, Err(IO(Interrupted)) => false.                *)
Decision(w) == w = "yes"

(* Mutant: every prompt error is taken as a decline. *)
AskReturns_AnyErrorDeclines(w) == w \in {"yes", "no", "interrupted", "ioerror"}

(* Mutant: an Interrupted prompt error is fatal like any other. *)
AskReturns_InterruptFatal(w) == w \in {"yes", "no"}

(* The prompt outcomes on which ask_to_continue_drop returns a value; on   *)
(* every other outcome it panics.                                          *)
AskReturns(w) == w \in {"yes", "no", "interrupted"}

(* Mutant: the guard is never disarmed. *)
GuardDisarmed_Never(w) == FALSE

(* `Ok(decision) => { guard.disarmed = true; .. }`: the guard is disarmed  *)
(* on an answer and on no other outcome of the prompt.                     *)
GuardDisarmed(w) == w \in {"yes", "no"}

(* What ask_to_continue_drop does, in order, on an outcome that is not an  *)
(* answer. Err(IO(Interrupted)): mem::drop(guard) and return false. Any    *)
(* other Err: mem::drop(guard), then panic!. A panicked worker: expect()   *)
(* panics and the guard is dropped while the panic unwinds.                *)
Unwind(w) ==
    CASE w = "interrupted" -> <<"guard_show">>
      [] w = "panicked"    -> <<"panic", "guard_show">>
      [] OTHER             -> <<"guard_show", "panic">>

(* Mutant: a failed step is followed by another attempt to drop. *)
Failed_Retried(e) == Ctl("act", "drop", "none")

(* Mutant: the error of a step is dropped and the invocation goes on. *)
Failed_Swallowed(e) == Ctl("migrate", "setup", "none")

(* `?`: an error of a step ends the invocation with that error. *)
Failed(e) == Ctl("done", "none", e)

(* Mutant: reset reuses drop's existence result and creates directly. *)
AfterDropOk_ReuseExists(o) ==
    IF o = "reset" THEN Ctl("act", "create", "none")
                   ELSE Ctl("done", "none", "ok")

(* Mutant: reset ends when drop returns. *)
AfterDropOk_NoSetup(o) == Ctl("done", "none", "ok")

(* Where an invocation continues once drop has returned Ok(()): reset goes *)
(* on to setup, whose first step is create's existence check.              *)
AfterDropOk(o) ==
    IF o = "reset" THEN Ctl("exists", "create", "none")
                   ELSE Ctl("done", "none", "ok")

(* Where an invocation continues once create has returned Ok(()): setup    *)
(* (also inside reset) goes on to migrate::run.                            *)
AfterCreateOk(o) ==
    IF o \in {"setup", "reset"} THEN Ctl("migrate", "setup", "none")
                                ELSE Ctl("done", "none", "ok")

(* Mutant: every failure of the check is retried. *)
Retryable_Any(r) == r # "ok"

(* The retry wrapper retries connection-transient failures only. *)
Retryable(r) == r = "transient"

(* Mutant: a transient failure is not retried. *)
RetryAgain_Never(n) == FALSE

(* Mutant: one attempt more than the ceiling. *)
RetryAgain_OneMore(n) == n < MaxAttempts + 1

(* The retry wrapper: a transient failure is retried while attempts remain *)
(* and is surfaced as a connection error once they are used up.            *)
RetryAgain(n) == n < MaxAttempts

(* What an attempt of Any::database_exists yields. *)
Observed(r, db) ==
    IF r = "ok" THEN (IF db THEN "present" ELSE "absent") ELSE r

(* Mutant: the operation calls its capability without the existence check. *)
Entry_NoCheck(o, c, f) ==
    IF o \in {"drop", "reset"} THEN Ctl("act", "drop", "none")
                               ELSE Ctl("act", "create", "none")

(* First step of an operation: drop and reset start in drop, create and    *)
(* setup start in create.                                                  *)
Entry(o, c, f) ==
    IF o \in {"drop", "reset"}
    THEN IF PromptNeeded(c, f) THEN Ctl("await", "drop", "none")
                               ELSE Ctl("exists", "drop", "none")
    ELSE Ctl("exists", "create", "none")

SetCtl(p, c) ==
    /\ pc' = [pc EXCEPT ![p] = c.pc]
    /\ phase' = [phase EXCEPT ![p] = c.phase]
    /\ result' = [result EXCEPT ![p] = c.result]

Summary(p) ==
    [op |-> op[p], confirm |-> confirm[p], force |-> force[p],
     result |-> result[p], trace |-> trace[p], prompts |-> prompts[p],
     dbAtStart |-> dbAtStart[p], dbAtEnd |-> dbExists]

-----------------------------------------------------------------------------
(* Initial state: no invocation has been made, the cursor is visible, the  *)
(* database is absent or present.                                          *)

InitLocal ==
    /\ ncalls = [p \in Procs |-> 0]
    /\ pc = [p \in Procs |-> "idle"]
    /\ op = [p \in Procs |-> "none"]
    /\ confirm = [p \in Procs |-> FALSE]
    /\ force = [p \in Procs |-> FALSE]
    /\ phase = [p \in Procs |-> "none"]
    /\ exists = [p \in Procs |-> FALSE]
    /\ attempts = [p \in Procs |-> 0]
    /\ fresh = [p \in Procs |-> TRUE]
    /\ guard = [p \in Procs |-> "none"]
    /\ wpc = [p \in Procs |-> "idle"]
    /\ wres = [p \in Procs |-> "none"]
    /\ result = [p \in Procs |-> "none"]
    /\ trace = [p \in Procs |-> <<>>]
    /\ prompts = [p \in Procs |-> 0]
    /\ cursorLog = [p \in Procs |-> <<>>]
    /\ migrateOpts = [p \in Procs |-> <<>>]
    /\ dbAtStart = [p \in Procs |-> FALSE]
    /\ prev = [p \in Procs |-> NoCall]

Init ==
    /\ dbExists \in BOOLEAN
    /\ cursorVisible = TRUE
    /\ active = {1}
    /\ InitLocal

(* Two callers work on the same target at the same time. *)
InitConc ==
    /\ dbExists \in BOOLEAN
    /\ cursorVisible = TRUE
    /\ active = {1, 2}
    /\ InitLocal

(* Invocations a caller makes: a single caller makes up to MaxCalls, one   *)
(* after the other; concurrent callers make one each.                      *)
Budget == IF Cardinality(active) = 1 THEN MaxCalls ELSE 1

-----------------------------------------------------------------------------
(* Actions *)

(* A caller invokes create, drop, reset or setup. The invocation runs to   *)
(* its first await: the prompt (drop / reset with confirm) or the          *)
(* existence check. A caller whose invocation panicked or was cancelled    *)
(* makes no further invocation.                                            *)
Call(p, o, c, f) ==
    /\ p \in active
    /\ pc[p] \in {"idle", "done"}
    /\ result[p] \notin {"panic", "cancelled"}
    /\ ncalls[p] < Budget
    /\ o \in {"create", "setup"} => (~c /\ ~f)
    /\ ncalls' = [ncalls EXCEPT ![p] = @ + 1]
    /\ prev' = [prev EXCEPT ![p] = IF pc[p] = "done" THEN Summary(p) ELSE @]
    /\ dbAtStart' = [dbAtStart EXCEPT ![p] = dbExists]
    /\ op' = [op EXCEPT ![p] = o]
    /\ confirm' = [confirm EXCEPT ![p] = c]
    /\ force' = [force EXCEPT ![p] = f]
    /\ SetCtl(p, Entry(o, c, f))
    /\ exists' = [exists EXCEPT ![p] = FALSE]
    /\ attempts' = [attempts EXCEPT ![p] = 0]
    /\ fresh' = [fresh EXCEPT ![p] = TRUE]
    /\ trace' = [trace EXCEPT ![p] = <<>>]
    /\ migrateOpts' = [migrateOpts EXCEPT ![p] = <<>>]
    /\ cursorLog' = [cursorLog EXCEPT ![p] = <<>>]
    /\ wres' = [wres EXCEPT ![p] = "none"]
    /\ IF Entry(o, c, f).pc = "await"
       THEN /\ guard' = [guard EXCEPT ![p] = "armed"]
            /\ wpc' = [wpc EXCEPT ![p] = "hide"]
            /\ prompts' = [prompts EXCEPT ![p] = 1]
       ELSE /\ guard' = [guard EXCEPT ![p] = "none"]
            /\ wpc' = [wpc EXCEPT ![p] = "idle"]
            /\ prompts' = [prompts EXCEPT ![p] = 0]
    /\ UNCHANGED shared

(* The prompt worker starts Confirm::interact, which hides the cursor. *)
WorkerHide(p) ==
    /\ wpc[p] = "hide"
    /\ wpc' = [wpc EXCEPT ![p] = "read"]
    /\ cursorVisible' = FALSE
    /\ cursorLog' = [cursorLog EXCEPT ![p] = Append(@, "hide")]
    /\ UNCHANGED <<dbExists, active, args, ctl, chk, guard, wres, prompts,
                   obs, sess>>

(* The prompt worker finishes: an answer (the prompt library shows the     *)
(* cursor again), an I/O error (Interrupted or another one) or a panic     *)
(* (the cursor stays hidden).                                              *)
WorkerRead(p, a) ==
    /\ wpc[p] = "read"
    /\ a \in Answers
    /\ wpc' = [wpc EXCEPT ![p] = "done"]
    /\ wres' = [wres EXCEPT ![p] = a]
    /\ IF a \in {"yes", "no"}
       THEN /\ cursorVisible' = TRUE
            /\ cursorLog' = [cursorLog EXCEPT ![p] = Append(@, "lib_show")]
       ELSE UNCHANGED <<cursorVisible, cursorLog>>
    /\ UNCHANGED <<dbExists, active, args, ctl, chk, guard, prompts, obs,
                   sess>>

(* ask_to_continue_drop resumes with the worker's outcome (lines 133-149)  *)
(* and drop acts on its value (lines 29-31).                               *)
AwaitDecision(p) ==
    /\ pc[p] = "await"
    /\ wpc[p] = "done"
    /\ IF GuardDisarmed(wres[p])
       THEN /\ guard' = [guard EXCEPT ![p] = "disarmed"]
            /\ cursorLog' = [cursorLog EXCEPT ![p] =
                                 IF AskReturns(wres[p]) THEN @
                                 ELSE Append(@, "panic")]
            /\ UNCHANGED cursorVisible
       ELSE /\ guard' = [guard EXCEPT ![p] = "fired"]
            /\ cursorVisible' = TRUE
            /\ cursorLog' = [cursorLog EXCEPT ![p] =
                                 IF AskReturns(wres[p])
                                 THEN Append(@, "guard_show")
                                 ELSE @ \o Unwind(wres[p])]
    /\ IF AskReturns(wres[p])
       THEN IF Decision(wres[p])
            THEN SetCtl(p, Ctl("exists", "drop", "none"))
            ELSE SetCtl(p, AfterDropOk(op[p]))
       ELSE SetCtl(p, Failed("panic"))
    /\ UNCHANGED <<dbExists, active, args, chk, wpc, wres, prompts, obs,
                   sess>>

(* The awaiting invocation is dropped while the prompt is outstanding: the *)
(* guard is dropped armed and shows the cursor; the blocking worker is not *)
(* stopped.                                                                *)
Cancel(p) ==
    /\ pc[p] = "await"
    /\ guard' = [guard EXCEPT ![p] = "fired"]
    /\ cursorVisible' = TRUE
    /\ cursorLog' = [cursorLog EXCEPT ![p] = Append(@, "guard_show")]
    /\ SetCtl(p, Failed("cancelled"))
    /\ UNCHANGED <<dbExists, active, args, chk, wpc, wres, prompts, obs,
                   sess>>

(* One attempt of retry_connect_errors(connect_opts, Any::database_exists) *)
(* and, when it yields a value, the branch create / drop takes on it.      *)
ExistsAttempt(p, r) ==
    /\ pc[p] = "exists"
    /\ r \in CheckOutcomes
    /\ trace' = [trace EXCEPT ![p] = Append(@, Ev("exists", Observed(r, dbExists)))]
    /\ fresh' = [fresh EXCEPT ![p] = IF r = "ok" THEN TRUE ELSE @]
    /\ CASE r = "ok" ->
              /\ exists' = [exists EXCEPT ![p] = dbExists]
              /\ attempts' = [attempts EXCEPT ![p] = 0]
              /\ IF phase[p] = "create"
                 THEN IF CreateNeeded(dbExists)
                      THEN SetCtl(p, Ctl("act", "create", "none"))
                      ELSE SetCtl(p, AfterCreateOk(op[p]))
                 ELSE IF DropNeeded(dbExists)
                      THEN SetCtl(p, Ctl("act", "drop", "none"))
                      ELSE SetCtl(p, AfterDropOk(op[p]))
         [] r # "ok" /\ Retryable(r) ->
              /\ UNCHANGED exists
              /\ IF RetryAgain(attempts[p] + 1)
                 THEN /\ attempts' = [attempts EXCEPT ![p] = @ + 1]
                      /\ UNCHANGED ctl
                 ELSE /\ attempts' = [attempts EXCEPT ![p] = 0]
                      /\ SetCtl(p, Failed("ConnectionError"))
         [] r # "ok" /\ ~Retryable(r) ->
              /\ UNCHANGED exists
              /\ attempts' = [attempts EXCEPT ![p] = 0]
              /\ SetCtl(p, Failed("DriverError"))
    /\ UNCHANGED <<shared, args, prm, migrateOpts, sess>>

(* A driver call of p that changed the database makes the existence        *)
(* results the other callers hold out of date.                             *)
Touched(p, changed) ==
    [q \in Procs |-> IF q # p /\ changed THEN FALSE ELSE fresh[q]]

(* Any::create_database(url).await? *)
DriverCreate(p, ok) ==
    /\ pc[p] = "act"
    /\ phase[p] = "create"
    /\ trace' = [trace EXCEPT ![p] = Append(@, Ev("create", Done(ok)))]
    /\ IF ok
       THEN /\ dbExists' = TRUE
            /\ SetCtl(p, AfterCreateOk(op[p]))
       ELSE /\ UNCHANGED dbExists
            /\ SetCtl(p, Failed("DriverError"))
    /\ fresh' = Touched(p, dbExists # dbExists')
    /\ UNCHANGED <<cursorVisible, active, args, exists, attempts, prm,
                   migrateOpts, sess>>

(* Any::drop_database(url).await? or Any::force_drop_database(url).await? *)
DriverDrop(p, ok) ==
    /\ pc[p] = "act"
    /\ phase[p] = "drop"
    /\ trace' = [trace EXCEPT ![p] = Append(@, Ev(DropCapability(force[p]), Done(ok)))]
    /\ IF ok
       THEN /\ dbExists' = FALSE
            /\ SetCtl(p, AfterDropOk(op[p]))
       ELSE /\ UNCHANGED dbExists
            /\ SetCtl(p, Failed("DriverError"))
    /\ fresh' = Touched(p, dbExists # dbExists')
    /\ UNCHANGED <<cursorVisible, active, args, exists, attempts, prm,
                   migrateOpts, sess>>

(* migrate::run(migration_source, connect_opts, false, false, false, None) *)
MigrateRun(p, ok) ==
    /\ pc[p] = "migrate"
    /\ trace' = [trace EXCEPT ![p] = Append(@, Ev("migrate", Done(ok)))]
    /\ migrateOpts' = [migrateOpts EXCEPT ![p] = Append(@, MigrateDefaults)]
    /\ SetCtl(p, IF ok THEN Ctl("done", "none", "ok")
                       ELSE Failed("MigrationError"))
    /\ UNCHANGED <<shared, args, chk, prm, sess>>

Next ==
    \/ \E p \in Procs, o \in Ops, c \in BOOLEAN, f \in BOOLEAN : Call(p, o, c, f)
    \/ \E p \in Procs : WorkerHide(p)
    \/ \E p \in Procs, a \in Answers : WorkerRead(p, a)
    \/ \E p \in Procs : AwaitDecision(p)
    \/ \E p \in Procs : Cancel(p)
    \/ \E p \in Procs, r \in CheckOutcomes : ExistsAttempt(p, r)
    \/ \E p \in Procs, ok \in BOOLEAN : DriverCreate(p, ok)
    \/ \E p \in Procs, ok \in BOOLEAN : DriverDrop(p, ok)
    \/ \E p \in Procs, ok \in BOOLEAN : MigrateRun(p, ok)

Spec == Init /\ [][Next]_vars

SpecConc == InitConc /\ [][Next]_vars

(* A step of p's invocation or of its prompt worker: a collaborator call  *)
(* or the prompt returning.                                                *)
Step(p) ==
    \/ WorkerHide(p)
    \/ \E a \in Answers : WorkerRead(p, a)
    \/ AwaitDecision(p)
    \/ \E r \in CheckOutcomes : ExistsAttempt(p, r)
    \/ \E ok \in BOOLEAN : DriverCreate(p, ok)
    \/ \E ok \in BOOLEAN : DriverDrop(p, ok)
    \/ \E ok \in BOOLEAN : MigrateRun(p, ok)

(* Every collaborator call and the prompt return: an invocation that can   *)
(* take a step eventually takes one. Nothing forces a caller to make an    *)
(* invocation or the environment to cancel one.                            *)
SpecLive == Init /\ [][Next]_vars /\ \A p \in Procs : WF_vars(Step(p))

-----------------------------------------------------------------------------
TypeOK ==
    /\ dbExists \in BOOLEAN
    /\ cursorVisible \in BOOLEAN
    /\ active \subseteq Procs
    /\ \A p \in Procs :
         /\ ncalls[p] \in 0 .. MaxCalls
         /\ pc[p] \in {"idle", "await", "exists", "act", "migrate", "done"}
         /\ op[p] \in Ops \cup {"none"}
         /\ phase[p] \in {"none", "drop", "create", "setup"}
         /\ attempts[p] \in 0 .. MaxAttempts
         /\ guard[p] \in {"none", "armed", "disarmed", "fired"}
         /\ wpc[p] \in {"idle", "hide", "read", "done"}
         /\ wres[p] \in Answers \cup {"none"}
         /\ result[p] \in Results
         /\ prompts[p] \in 0 .. 1

-----------------------------------------------------------------------------
(* Reading the observed calls *)

Calls(t) == [i \in DOMAIN t |-> t[i].call]

Count(t, c) == Cardinality({i \in DOMAIN t : t[i].call = c})

(* No collaborator call of the trace failed. *)
NoFault(t) == \A i \in DOMAIN t : t[i].outcome \in {"ok", "present", "absent"}

IsPrefix(s, t) == Len(s) <= Len(t) /\ \A i \in DOMAIN s : s[i] = t[i]

(* The invocation of p has returned. *)
Returned(p) == pc[p] = "done" /\ result[p] \notin {"panic", "cancelled"}

(* ask_to_continue_drop of p's invocation has resumed with the prompt     *)
(* outcome w (the invocation was not cancelled while it waited).           *)
Answered(p, w) ==
    /\ confirm[p] /\ wres[p] = w
    /\ pc[p] # "await" /\ result[p] # "cancelled"

(* The drop of p's invocation went past the confirmation gate. *)
Proceeded(p) == ~confirm[p] \/ Answered(p, "yes")

(* The prompt of p's invocation was declined or interrupted. *)
Skipped(p) == Answered(p, "no") \/ Answered(p, "interrupted")

-----------------------------------------------------------------------------
(* C1: two successive successful calls of create leave the database        *)
(* existing; the second call performs only the existence check and never   *)
(* the driver's create; over both calls create is invoked at most once,    *)
(* and exactly once iff the database was absent before the first call.     *)
TwiceCreate(p) ==
    /\ Returned(p) /\ op[p] = "create" /\ result[p] = "ok"
    /\ prev[p].op = "create" /\ prev[p].result = "ok"

C1_CreateIdempotent ==
    \A p \in active :
        TwiceCreate(p) =>
            /\ dbExists /\ prev[p].dbAtEnd
            /\ trace[p] # <<>>
            /\ \A i \in DOMAIN trace[p] : trace[p][i].call = "exists"
            /\ trace[p][Len(trace[p])].outcome = "present"
            /\ Count(prev[p].trace, "create") + Count(trace[p], "create") <= 1
            /\ (Count(prev[p].trace, "create") + Count(trace[p], "create") = 1)
                   <=> ~prev[p].dbAtStart

C1_Witness ==
    \E p \in active :
        /\ TwiceCreate(p)
        /\ ~prev[p].dbAtStart
        /\ Calls(prev[p].trace) = <<"exists", "create">>
        /\ Calls(trace[p]) = <<"exists">>

(* C2: drop of a database that does not exist, with the confirmation       *)
(* bypassed or confirmed and for either value of force, returns success    *)
(* once the existence check has reported the absence, invokes neither      *)
(* drop nor force_drop, and leaves the database absent.                    *)
DropOfAbsent(p) ==
    /\ op[p] = "drop" /\ Proceeded(p) /\ ~dbAtStart[p]
    /\ \E i \in DOMAIN trace[p] : trace[p][i].outcome = "absent"

C2_DropAbsentNoop ==
    \A p \in active :
        /\ (op[p] = "drop" /\ ~dbAtStart[p]) =>
               /\ Count(trace[p], "drop") = 0
               /\ Count(trace[p], "force_drop") = 0
               /\ ~dbExists
        /\ DropOfAbsent(p) =>
               /\ pc[p] = "done" /\ result[p] = "ok"
               /\ trace[p][Len(trace[p])] = Ev("exists", "absent")

C2_Witness ==
    \E p \in active :
        /\ DropOfAbsent(p) /\ force[p] /\ confirm[p]
        /\ pc[p] = "done" /\ result[p] = "ok"

(* C3: when drop is called with confirm = true and the user declines, drop *)
(* returns success with no side effect: no drop capability and no          *)
(* existence check is invoked and the database's existence is unchanged,   *)
(* whatever force and the initial database state are.                      *)
DropDeclined(p) ==
    /\ op[p] = "drop" /\ Answered(p, "no")

C3_DeclineNoSideEffect ==
    \A p \in active :
        DropDeclined(p) =>
            /\ pc[p] = "done" /\ result[p] = "ok"
            /\ trace[p] = <<>>
            /\ migrateOpts[p] = <<>>
            /\ dbExists = dbAtStart[p]

C3_Witness ==
    \E p \in active : DropDeclined(p) /\ force[p] /\ dbAtStart[p] /\ dbExists

(* C4: an Interrupted prompt is a decline, never a failure: drop returns   *)
(* success, no capability is invoked, the guard has fired and the cursor   *)
(* is visible when drop returns.                                           *)
DropInterrupted(p) ==
    /\ op[p] = "drop" /\ Answered(p, "interrupted")

C4_InterruptIsDecline ==
    \A p \in active :
        DropInterrupted(p) =>
            /\ pc[p] = "done" /\ result[p] = "ok"
            /\ trace[p] = <<>>
            /\ dbExists = dbAtStart[p]
            /\ guard[p] = "fired"
            /\ cursorVisible

C4_Witness ==
    \E p \in active :
        /\ DropInterrupted(p) /\ dbAtStart[p]
        /\ cursorLog[p] = <<"hide", "guard_show">>

(* C5: reset of an existing database with confirm = true, force = false,   *)
(* an affirmative answer and no collaborator failure makes exactly the     *)
(* calls exists, drop, exists, create, migrate, in this order.             *)
ResetSequence == <<"exists", "drop", "exists", "create", "migrate">>

CleanReset(p) ==
    /\ op[p] = "reset" /\ ~force[p] /\ Answered(p, "yes")
    /\ dbAtStart[p] /\ NoFault(trace[p])

C5_ResetSequence ==
    \A p \in active :
        CleanReset(p) =>
            /\ IsPrefix(Calls(trace[p]), ResetSequence)
            /\ pc[p] = "done" <=> Calls(trace[p]) = ResetSequence
            /\ pc[p] = "done" =>
                   /\ result[p] = "ok"
                   /\ trace[p][1].outcome = "present"
                   /\ trace[p][3].outcome = "absent"

C5_Witness ==
    \E p \in active :
        CleanReset(p) /\ pc[p] = "done" /\ Calls(trace[p]) = ResetSequence

(* C6: setup without collaborator failure makes the calls exists, create,  *)
(* migrate when the database is absent and exists, migrate when it is      *)
(* present; migrate is invoked once, with dry_run = false,                 *)
(* ignore_missing = false, fake = false and no target version.             *)
CleanSetup(p) ==
    /\ op[p] = "setup" /\ pc[p] = "done" /\ NoFault(trace[p])

C6_SetupSequence ==
    \A p \in active :
        CleanSetup(p) =>
            /\ result[p] = "ok"
            /\ Calls(trace[p]) = IF dbAtStart[p]
                                 THEN <<"exists", "migrate">>
                                 ELSE <<"exists", "create", "migrate">>
            /\ Len(migrateOpts[p]) = 1
            /\ migrateOpts[p][1].dry_run = FALSE
            /\ migrateOpts[p][1].ignore_missing = FALSE
            /\ migrateOpts[p][1].fake = FALSE
            /\ migrateOpts[p][1].target_version = "None"

C6_Witness ==
    \E p \in active :
        /\ CleanSetup(p) /\ ~dbAtStart[p] /\ dbExists
        /\ Count(trace[p], "migrate") = 1

(* C7: when the drop step of reset (confirm = true) is declined or         *)
(* interrupted, no drop capability is invoked and setup still runs: the    *)
(* existence check of create, create only if the database is absent, then  *)
(* the migration engine; reset returns what setup returns.                 *)
ResetSkipped(p) == op[p] = "reset" /\ Skipped(p)

C7_ResetSkippedStillSetsUp ==
    \A p \in active :
        ResetSkipped(p) =>
            /\ Count(trace[p], "drop") = 0
            /\ Count(trace[p], "force_drop") = 0
            /\ pc[p] = "done" =>
                   /\ trace[p] # <<>>
                   /\ trace[p][1].call = "exists"
                   /\ NoFault(trace[p]) =>
                          /\ result[p] = "ok"
                          /\ Calls(trace[p]) =
                                 IF dbAtStart[p]
                                 THEN <<"exists", "migrate">>
                                 ELSE <<"exists", "create", "migrate">>
                   /\ result[p] = "ok" <=>
                          trace[p][Len(trace[p])] = Ev("migrate", "ok")
                   /\ result[p] = "MigrationError" <=>
                          trace[p][Len(trace[p])] = Ev("migrate", "error")

C7_Witness ==
    \E p \in active :
        /\ ResetSkipped(p) /\ wres[p] = "interrupted" /\ pc[p] = "done"
        /\ dbAtStart[p]
        /\ Calls(trace[p]) = <<"exists", "migrate">>

(* C8: in setup and reset the first failing step ends the invocation with  *)
(* that step's error and no later capability is invoked: after a failed    *)
(* existence check or create no migrate (and in reset's drop step no       *)
(* create either); a migration failure is returned as it is. A transient   *)
(* failure of the existence check that is retried is followed only by the  *)
(* next attempt of that check.                                             *)
ErrorOf(e) ==
    IF e.call = "exists"
    THEN (IF e.outcome = "transient" THEN "ConnectionError" ELSE "DriverError")
    ELSE IF e.call = "migrate" THEN "MigrationError" ELSE "DriverError"

Faulty(e) == e.outcome \in {"transient", "fatal", "error"}

C8_FirstFailureEnds ==
    \A p \in active :
        op[p] \in {"setup", "reset"} =>
            \A i \in DOMAIN trace[p] :
                Faulty(trace[p][i]) =>
                    \/ /\ i = Len(trace[p])
                       /\ pc[p] = "done"
                       /\ result[p] = ErrorOf(trace[p][i])
                       /\ trace[p][i].call # "migrate" =>
                              Count(trace[p], "migrate") = 0
                       /\ trace[p][i].call \in {"drop", "force_drop"} =>
                              Count(trace[p], "create") = 0
                       /\ migrateOpts[p] = <<>> <=> trace[p][i].call # "migrate"
                    \/ /\ trace[p][i] = Ev("exists", "transient")
                       /\ i = Len(trace[p])
                       /\ pc[p] = "exists"
                       /\ result[p] = "none"
                    \/ /\ trace[p][i] = Ev("exists", "transient")
                       /\ i < Len(trace[p])
                       /\ trace[p][i + 1].call = "exists"

C8_Witness ==
    \E p \in active :
        /\ op[p] = "reset" /\ pc[p] = "done" /\ result[p] = "DriverError"
        /\ Calls(trace[p]) = <<"exists", "drop">>

(* C9: when drop proceeds and its existence check reports the database     *)
(* present, exactly one drop capability is invoked, once: force_drop if    *)
(* force, drop otherwise; the other one is never invoked.                  *)
DropOfPresent(p) ==
    /\ op[p] \in {"drop", "reset"} /\ Proceeded(p)
    /\ \E i \in DOMAIN trace[p] :
           /\ trace[p][i] = Ev("exists", "present")
           /\ \A j \in 1 .. i : trace[p][j].call = "exists"

C9_ExactlyOneDropCapability ==
    \A p \in active :
        /\ Count(trace[p], "drop") + Count(trace[p], "force_drop") <= 1
        /\ force[p] => Count(trace[p], "drop") = 0
        /\ ~force[p] => Count(trace[p], "force_drop") = 0
        /\ (DropOfPresent(p) /\ pc[p] # "act") =>
               IF force[p] THEN Count(trace[p], "force_drop") = 1
                           ELSE Count(trace[p], "drop") = 1
        /\ Count(trace[p], "drop") + Count(trace[p], "force_drop") = 1 =>
               DropOfPresent(p)

C9_Witness ==
    \E p \in active :
        /\ DropOfPresent(p) /\ force[p] /\ pc[p] = "done"
        /\ Count(trace[p], "force_drop") = 1

(* C10: an invocation prompts iff it is drop or reset called with          *)
(* confirm = true, whatever force is; create and setup never prompt; with  *)
(* confirm = false drop goes straight to the existence check; there is at  *)
(* most one prompt per invocation.                                         *)
Invoked(p) == pc[p] # "idle"

C10_PromptIffConfirm ==
    \A p \in active :
        Invoked(p) =>
            /\ prompts[p] = 1 <=> (op[p] \in {"drop", "reset"} /\ confirm[p])
            /\ prompts[p] <= 1
            /\ Cardinality({i \in DOMAIN cursorLog[p] :
                                cursorLog[p][i] = "hide"}) <= prompts[p]
            /\ op[p] \in {"create", "setup"} =>
                   prompts[p] = 0 /\ guard[p] = "none" /\ cursorLog[p] = <<>>
            /\ (op[p] \in {"drop", "reset"} /\ ~confirm[p]) =>
                   /\ guard[p] = "none" /\ wpc[p] = "idle"
                   /\ trace[p] = <<>> => pc[p] = "exists" /\ phase[p] = "drop"
            /\ pc[p] = "await" => trace[p] = <<>> /\ prompts[p] = 1

C10_Witness ==
    \E p \in active :
        /\ Invoked(p) /\ op[p] = "drop" /\ confirm[p] /\ force[p]
        /\ prompts[p] = 1 /\ pc[p] = "await" /\ wpc[p] = "read"

-----------------------------------------------------------------------------
(* Reading the cursor log *)

Occurrences(l, e) == Cardinality({i \in DOMAIN l : l[i] = e})

Shows(l) == Occurrences(l, "lib_show") + Occurrences(l, "guard_show")

(* The prompt session of p's invocation has ended in ask_to_continue_drop  *)
(* (the invocation was not cancelled while the prompt was outstanding).    *)
SessionEnded(p) ==
    prompts[p] = 1 /\ pc[p] # "await" /\ result[p] # "cancelled"

(* C11: every prompt session that ends in ask_to_continue_drop (answer,    *)
(* decline, Interrupted, other prompt error, panic of the worker) shows    *)
(* the cursor again exactly once after hiding it: on an answer the guard   *)
(* is disarmed and the prompt library shows it, otherwise the guard fires. *)
(* The guard fires at most once and never once disarmed.                   *)
C11_CursorRestoredOnce ==
    \A p \in active :
        /\ Occurrences(cursorLog[p], "guard_show") <= 1
        /\ guard[p] = "disarmed" => Occurrences(cursorLog[p], "guard_show") = 0
        /\ guard[p] = "fired" <=> Occurrences(cursorLog[p], "guard_show") = 1
        /\ SessionEnded(p) =>
               /\ cursorLog[p][1] = "hide"
               /\ Occurrences(cursorLog[p], "hide") = 1
               /\ Shows(cursorLog[p]) = 1
               /\ cursorVisible
               /\ IF wres[p] \in {"yes", "no"}
                  THEN guard[p] = "disarmed"
                       /\ cursorLog[p] = <<"hide", "lib_show">>
                  ELSE guard[p] = "fired"
                       /\ Occurrences(cursorLog[p], "guard_show") = 1

C11_Witness ==
    \E p \in active :
        /\ SessionEnded(p) /\ wres[p] = "panicked"
        /\ cursorLog[p] = <<"hide", "panic", "guard_show">>

-----------------------------------------------------------------------------
(* Reading the existence check of create and drop *)

Valued(e) == e.call = "exists" /\ e.outcome \in {"present", "absent"}

Mutating == {"create", "drop", "force_drop"}

(* p's invocation is a plain create or drop. *)
Plain(p) == op[p] \in {"create", "drop"}

(* The capability the existence check of p's invocation gates. *)
Gated(p) ==
    IF op[p] = "create" THEN "create"
    ELSE IF force[p] THEN "force_drop" ELSE "drop"

(* The existence result on which p's invocation calls its capability. *)
Permits(p, o) == IF op[p] = "create" THEN o = "absent" ELSE o = "present"

(* C12: when the existence check of create / drop fails transiently on its *)
(* first k attempts, k below the attempt ceiling, and then succeeds, the   *)
(* check was invoked exactly k + 1 times, its value is that of the         *)
(* successful attempt (the state of the database), and create / drop act   *)
(* on that value. While fewer than the ceiling of attempts have failed     *)
(* transiently the check is attempted again.                               *)
C12_RetryThenValue ==
    \A p \in active :
        Plain(p) =>
            /\ \A i \in DOMAIN trace[p] :
                   Valued(trace[p][i]) =>
                       /\ i <= MaxAttempts
                       /\ \A j \in 1 .. (i - 1) :
                              trace[p][j] = Ev("exists", "transient")
                       /\ Count(trace[p], "exists") = i
                       /\ exists[p] = (trace[p][i].outcome = "present")
                       /\ exists[p] = dbAtStart[p]
                       /\ IF Permits(p, trace[p][i].outcome)
                          THEN \/ Len(trace[p]) = i /\ pc[p] = "act"
                               \/ /\ Len(trace[p]) = i + 1
                                  /\ trace[p][i + 1].call = Gated(p)
                                  /\ pc[p] = "done"
                          ELSE /\ Len(trace[p]) = i
                               /\ pc[p] = "done" /\ result[p] = "ok"
            /\ ( /\ trace[p] # <<>>
                 /\ Len(trace[p]) < MaxAttempts
                 /\ \A j \in DOMAIN trace[p] :
                        trace[p][j] = Ev("exists", "transient") )
               => pc[p] = "exists" /\ attempts[p] = Len(trace[p])

C12_Witness ==
    \E p \in active :
        /\ op[p] = "create" /\ pc[p] = "done" /\ result[p] = "ok"
        /\ trace[p] = << Ev("exists", "transient"), Ev("exists", "transient"),
                         Ev("exists", "absent"), Ev("create", "ok") >>

(* C13: a non-transient failure of the existence check on its first        *)
(* attempt is returned at once: the check was invoked exactly once, create *)
(* / drop return that error and invoke no create, drop or force_drop. A    *)
(* non-transient failure of a later attempt also ends the invocation.      *)
FatalFirst(p) ==
    Plain(p) /\ trace[p] # <<>> /\ trace[p][1] = Ev("exists", "fatal")

C13_FatalCheckNotRetried ==
    \A p \in active :
        /\ FatalFirst(p) =>
               /\ trace[p] = << Ev("exists", "fatal") >>
               /\ pc[p] = "done" /\ result[p] = "DriverError"
               /\ attempts[p] = 0
               /\ dbExists = dbAtStart[p]
        /\ \A i \in DOMAIN trace[p] :
               trace[p][i] = Ev("exists", "fatal") =>
                   /\ i = Len(trace[p])
                   /\ pc[p] = "done" /\ result[p] = "DriverError"

C13_Witness ==
    \E p \in active :
        /\ FatalFirst(p) /\ op[p] = "drop" /\ force[p] /\ ~confirm[p]
        /\ dbAtStart[p] /\ dbExists

(* C14: retrying is bounded. An existence check that fails transiently on  *)
(* every attempt is given up after MaxAttempts attempts with a connection  *)
(* error, the invocation ends there and the capability that check gates is *)
(* not invoked, nor anything after it; and every invocation of create,     *)
(* drop, setup and reset eventually returns when each collaborator call    *)
(* and the prompt return.                                                  *)
TransientRun(t, i, n) ==
    /\ i + n - 1 <= Len(t)
    /\ \A j \in i .. (i + n - 1) : t[j] = Ev("exists", "transient")

GaveUp(p) ==
    \E i \in DOMAIN trace[p] : TransientRun(trace[p], i, MaxAttempts)

GiveUpEnds(p) ==
    /\ attempts[p] < MaxAttempts
    /\ \A i \in DOMAIN trace[p] :
           TransientRun(trace[p], i, MaxAttempts) =>
               /\ i + MaxAttempts - 1 = Len(trace[p])
               /\ pc[p] = "done" /\ result[p] = "ConnectionError"
               /\ Count(trace[p], "create") = 0
               /\ Count(trace[p], "migrate") = 0
               /\ i > 1 => trace[p][i - 1] # Ev("exists", "transient")
               /\ i = 1 => /\ Count(trace[p], "drop") = 0
                           /\ Count(trace[p], "force_drop") = 0
                           /\ dbExists = dbAtStart[p]
    /\ result[p] = "ConnectionError" => GaveUp(p)

Running(p) == pc[p] \notin {"idle", "done"}

C14_BoundedRetryTerminates ==
    /\ [](\A p \in active : GiveUpEnds(p))
    /\ \A p \in Procs : Running(p) ~> (pc[p] = "done")

C14_Witness ==
    \E p \in active :
        /\ op[p] = "reset" /\ pc[p] = "done" /\ result[p] = "ConnectionError"
        /\ Calls(trace[p]) = <<"exists", "drop", "exists", "exists", "exists">>

(* C15: when the invocation is cancelled while the prompt is outstanding,  *)
(* the guard fires and the terminal is not left with a hidden cursor once  *)
(* the worker has finished, whatever the interleaving of the cancellation  *)
(* with the worker's hide and show of the cursor.                          *)
CancelledDuringPrompt(p) == result[p] = "cancelled"

C15_CancelNeverLeavesCursorHidden ==
    \A p \in active :
        CancelledDuringPrompt(p) =>
            /\ guard[p] = "fired"
            /\ wpc[p] = "done" => cursorVisible

(* C16: when the prompt fails with an error other than Interrupted, the    *)
(* guard shows the cursor, then the failure is raised as a panic; it is    *)
(* neither a decline nor a success, and no existence check, drop           *)
(* capability or migration is invoked afterwards.                          *)
PromptFailed(p) ==
    /\ prompts[p] = 1 /\ wres[p] = "ioerror"
    /\ pc[p] # "await" /\ result[p] # "cancelled"

C16_PromptErrorIsFatal ==
    \A p \in active :
        PromptFailed(p) =>
            /\ pc[p] = "done" /\ result[p] = "panic"
            /\ guard[p] = "fired"
            /\ cursorLog[p] = <<"hide", "guard_show", "panic">>
            /\ cursorVisible
            /\ trace[p] = <<>>
            /\ migrateOpts[p] = <<>>
            /\ dbExists = dbAtStart[p]

C16_Witness ==
    \E p \in active :
        PromptFailed(p) /\ op[p] = "reset" /\ dbAtStart[p] /\ force[p]

(* C17: only the existence check is retried. One invocation of create or   *)
(* drop invokes a mutating capability (create, drop, force_drop) at most   *)
(* once; when that call fails the invocation returns its error at once,    *)
(* with no second attempt and, for a plain drop, no force_drop.            *)
MutatingCalls(t) == Cardinality({i \in DOMAIN t : t[i].call \in Mutating})

C17_MutationNotRetried ==
    \A p \in active :
        /\ Plain(p) => MutatingCalls(trace[p]) <= 1
        /\ \A i \in DOMAIN trace[p] :
               /\ (i < Len(trace[p]) /\ trace[p][i].call = trace[p][i + 1].call)
                      => trace[p][i].call = "exists"
               /\ (trace[p][i].call \in Mutating /\ trace[p][i].outcome = "error")
                      => /\ i = Len(trace[p])
                         /\ pc[p] = "done" /\ result[p] = "DriverError"
                         /\ ~force[p] => Count(trace[p], "force_drop") = 0

C17_Witness ==
    \E p \in active :
        /\ op[p] = "drop" /\ ~force[p] /\ pc[p] = "done"
        /\ result[p] = "DriverError" /\ dbExists
        /\ trace[p] = << Ev("exists", "present"), Ev("drop", "error") >>

(* C18: the calls of one invocation are sequential. Every create is made   *)
(* right after a completed existence check of the same invocation that     *)
(* reported the database absent, every drop / force_drop right after one   *)
(* that reported it present, migrate only after that check or the create   *)
(* it led to; and while the prompt is outstanding on its worker the        *)
(* invocation has made no driver or migrator call and is at none.          *)
PromptOutstanding(p) == pc[p] = "await" \/ wpc[p] \in {"hide", "read"}

C18_StrictlySequential ==
    \A p \in active :
        /\ \A i \in DOMAIN trace[p] :
               /\ trace[p][i].call = "create" =>
                      i > 1 /\ trace[p][i - 1] = Ev("exists", "absent")
               /\ trace[p][i].call \in {"drop", "force_drop"} =>
                      i > 1 /\ trace[p][i - 1] = Ev("exists", "present")
               /\ trace[p][i].call = "migrate" =>
                      i > 1 /\ trace[p][i - 1] \in
                                   {Ev("exists", "present"), Ev("create", "ok")}
        /\ pc[p] = "act" =>
               /\ trace[p] # <<>>
               /\ trace[p][Len(trace[p])] =
                      Ev("exists", IF phase[p] = "create" THEN "absent"
                                                          ELSE "present")
        /\ PromptOutstanding(p) =>
               /\ trace[p] = <<>>
               /\ pc[p] \in {"await", "done"}
               /\ pc[p] = "done" => result[p] = "cancelled"

C18_Witness ==
    \E p \in active :
        /\ op[p] = "reset" /\ force[p] /\ ~confirm[p] /\ pc[p] = "done"
        /\ trace[p] = << Ev("exists", "present"), Ev("force_drop", "ok"),
                         Ev("exists", "absent"), Ev("create", "ok"),
                         Ev("migrate", "ok") >>

(* C19: with a single caller, each operation that returns success leaves   *)
(* the target in its known state: after create or setup the database       *)
(* exists (and setup has migrated it); after a drop that went past the     *)
(* confirmation gate it does not exist; after a reset whose drop went past *)
(* the gate it exists, was created by this reset after the drop of the     *)
(* database that was there, if any, and was migrated last.                 *)
Succeeded(p) == pc[p] = "done" /\ result[p] = "ok"

Position(t, e) == CHOOSE i \in DOMAIN t : t[i] = e

C19_KnownStateAfterSuccess ==
    \A p \in active :
        Succeeded(p) =>
            /\ op[p] \in {"create", "setup"} => dbExists
            /\ op[p] \in {"setup", "reset"} =>
                   trace[p][Len(trace[p])] = Ev("migrate", "ok")
            /\ (op[p] = "drop" /\ Proceeded(p)) => ~dbExists
            /\ (op[p] = "reset" /\ Proceeded(p)) =>
                   /\ dbExists
                   /\ Count(trace[p], "create") = 1
                   /\ \E i \in DOMAIN trace[p] : trace[p][i] = Ev("create", "ok")
                   /\ IF dbAtStart[p]
                      THEN \E i \in DOMAIN trace[p] :
                               /\ trace[p][i] = Ev(Gated(p), "ok")
                               /\ i < Position(trace[p], Ev("create", "ok"))
                      ELSE MutatingCalls(trace[p]) = 1

C19_Witness ==
    \E p \in active :
        /\ Succeeded(p) /\ op[p] = "reset" /\ Answered(p, "yes")
        /\ dbAtStart[p] /\ dbExists /\ ~force[p]
        /\ Count(trace[p], "drop") = 1

-----------------------------------------------------------------------------
(* Two concurrent callers *)

(* p's invocation is about to call the capability its check gates. *)
AtAction(p) == pc[p] = "act"

(* C20 as stated: whenever create is invoked the database is absent at     *)
(* that instant and whenever drop / force_drop is invoked it is present,   *)
(* also when a second invocation runs concurrently on the same target.     *)
C20_CheckHoldsAtAction ==
    \A p \in active :
        AtAction(p) =>
            /\ phase[p] = "create" => ~dbExists
            /\ phase[p] = "drop" => dbExists

(* C20 as amended: the capability is invoked on the result of the          *)
(* invocation's latest existence check (absent for create, present for     *)
(* drop / force_drop), and the database is still in that state at that     *)
(* instant unless another invocation has changed it since the check.       *)
C20_CheckHoldsUnlessTouched ==
    \A p \in active :
        AtAction(p) =>
            /\ exists[p] = (phase[p] = "drop")
            /\ trace[p] # <<>>
            /\ trace[p][Len(trace[p])] =
                   Ev("exists", IF exists[p] THEN "present" ELSE "absent")
            /\ fresh[p] => dbExists = exists[p]

C20_Witness ==
    \E p \in active, q \in active :
        /\ p # q
        /\ AtAction(p) /\ fresh[p] /\ phase[p] = "create" /\ ~dbExists
        /\ AtAction(q) /\ phase[q] = "create"

=============================================================================
